---- MODULE Spec2Model ----
(***************************************************************************)
(* Floyd's all-pairs shortest path (Algorithms/allpairsp.py): allpairsp,   *)
(* the relaxation loop over the (k, i, j) triples, and get_int_path, the   *)
(* recursive reconstruction of the intermediate vertices from P.           *)
(*                                                                         *)
(* Python lists are objects: a matrix is a list of references to row       *)
(* lists.  heap is the sequence of row lists ever allocated, and W, D, P   *)
(* are sequences of addresses (indices into heap).  Python's 0-based       *)
(* index x is position x + 1 of a TLA+ sequence.                           *)
(***************************************************************************)
EXTENDS Integers, Sequences, FiniteSets, TLC

\* Bounds of the explored inputs.
MaxN == 4
MaxW == 1
MaxEdges == 4
MaxSub == 3
MaxRows == 2
MaxCols == 3
ParN == 3

\* math.inf: larger than every number, inf + x = inf.
inf == -1

VARIABLES
    heap,    \* the row lists allocated so far
    W,       \* the caller's matrix: addresses of its rows
    n,       \* allpairsp's parameter / local n
    D,       \* allpairsp's D: addresses of its rows
    P,       \* allpairsp's P: addresses of its rows
    k, i, j, \* the triple the loop of line 54 is at
    pj,      \* row-parallel schedule: the j each row's process is at
    pend,    \* row-parallel schedule: the sum each process is about to store
    pc,      \* "call", "loop", "returned", "raised"
    Win,     \* the value of W when allpairsp was called
    nArg,    \* the value of n when allpairsp was called
    out      \* the last get_int_path call: arguments, output, depth

vars == <<heap, W, n, D, P, k, i, j, pj, pend, pc, Win, nArg, out>>

----------------------------------------------------------------------------
\* Numbers with math.inf.

Plus(x, y) == IF x = inf \/ y = inf THEN inf ELSE x + y

Less(x, y) == x # inf /\ (y = inf \/ x < y)

\* Lists.

Mat(h, refs) == [r \in 1..Len(refs) |-> h[refs[r]]]

CanIndex(h, refs, r, c) == r < Len(refs) /\ c < Len(h[refs[r + 1]])

Cell(h, refs, r, c) == h[refs[r + 1]][c + 1]

Store(h, refs, r, c, v) == [h EXCEPT ![refs[r + 1]][c + 1] = v]

\* D = W or W.copy() instead of deepcopy(W): D's rows are W's rows.
aliascopy(h, refs) == [heap |-> h, refs |-> refs]

\* deepcopy(W): fresh row lists holding the same numbers.
deepcopy(h, refs) ==
    [heap |-> h \o [r \in 1..Len(refs) |-> h[refs[r]]],
     refs |-> [r \in 1..Len(refs) |-> Len(h) + r]]

\* P filled with 0 instead of inf.
newPZero(h, m) ==
    [heap |-> h \o [r \in 1..m |-> [c \in 1..m |-> 0]],
     refs |-> [r \in 1..m |-> Len(h) + r]]

\* [[inf for _ in range(n)] for _ in range(n)]
newP(h, m) ==
    [heap |-> h \o [r \in 1..m |-> [c \in 1..m |-> inf]],
     refs |-> [r \in 1..m |-> Len(h) + r]]

----------------------------------------------------------------------------
\* The inputs explored.

\* The off-diagonal cells of an m x m matrix.
OffDiag(m) == {e \in (1..m) \X (1..m) : e[1] # e[2]}

\* The m x m matrix with zero diagonal, the weights w on w's edges and inf (no
\* edge) elsewhere.
MatrixOf(m, w) ==
    [r \in 1..m |-> [c \in 1..m |->
        IF r = c THEN 0 ELSE IF <<r, c>> \in DOMAIN w THEN w[<<r, c>>] ELSE inf]]

EdgeSets(m) == {S \in SUBSET OffDiag(m) : Cardinality(S) <= MaxEdges}

\* The graphs of m vertices with at most MaxEdges edges of weight 0..MaxW.
Graphs(m) == {MatrixOf(m, w) : w \in UNION {[E -> 0..MaxW] : E \in EdgeSets(m)}}

Rows == UNION {[1..c -> {0, 1, inf}] : c \in 1..MaxCols}

NonSquare ==
    {M \in UNION {[1..r -> Rows] : r \in 1..MaxRows} :
        \E r \in 1..Len(M) : Len(M[r]) # Len(M)}

\* The graph W of the demonstration (lines 112-118).
W_demo ==
    << <<0, 1, inf, 1, 5>>,
       <<9, 0, 3, 2, inf>>,
       <<inf, inf, 0, 4, inf>>,
       <<inf, inf, 2, 0, 3>>,
       <<3, inf, inf, inf, 0>> >>

\* allpairsp(W) on every graph, allpairsp(W, n) with n up to one too many on the
\* graphs of at most MaxSub vertices and on the non-square matrices.
Inputs ==
    UNION {Graphs(m) \X (IF m <= MaxSub THEN 0..(m + 1) ELSE {0}) : m \in 1..MaxN}
    \cup (NonSquare \X (0..MaxCols))
    \cup {<<W_demo, 0>>}

\* The graphs of the row-parallel schedule.
ParInputs == UNION {Graphs(m) \X {0} : m \in 1..ParN}

----------------------------------------------------------------------------
\* allpairsp

NoCall == [args |-> <<>>, printed |-> <<>>, depth |-> 0, overflow |-> FALSE]

\* The rows of W are distinct lists, as those of the module's own graphs are.
InitOf(inputs) ==
    /\ \E in \in inputs :
        /\ Win = in[1]
        /\ nArg = in[2]
    /\ heap = Win
    /\ W = [r \in 1..Len(Win) |-> r]
    /\ n = nArg
    /\ D = <<>>
    /\ P = <<>>
    /\ k = 0
    /\ i = 0
    /\ j = 0
    /\ pj = <<>>
    /\ pend = <<>>
    /\ pc = "call"
    /\ out = NoCall

Init == InitOf(Inputs)

\* Lines 47-50: default n, copy W, build P.
Begin ==
    /\ pc = "call"
    /\ LET m == IF n = 0 THEN Len(W) ELSE n
           c == deepcopy(heap, W)
           p == newP(c.heap, m)
       IN  /\ n' = m
           /\ D' = c.refs
           /\ P' = p.refs
           /\ heap' = p.heap
    /\ pc' = "loop"

Start ==
    /\ Begin
    /\ UNCHANGED <<W, k, i, j, pj, pend, Win, nArg, out>>

\* D[i][k] + D[k][j] <= D[i][j] instead of <.
ImprovesOrTies(dik, dkj, dij) == ~Less(dij, Plus(dik, dkj))

\* Line 55.
Improves(dik, dkj, dij) == Less(Plus(dik, dkj), dij)

\* Lines 55-57 without line 56: P is never written.
RelaxCellNoP(h, kk, ii, jj) ==
    IF Improves(Cell(h, D, ii, kk), Cell(h, D, kk, jj), Cell(h, D, ii, jj))
    THEN Store(h, D, ii, jj, Plus(Cell(h, D, ii, kk), Cell(h, D, kk, jj)))
    ELSE h

\* Line 57 adding the edge W[k][j] instead of the distance D[k][j].
RelaxCellFromW(h, kk, ii, jj) ==
    IF Improves(Cell(h, D, ii, kk), Cell(h, D, kk, jj), Cell(h, D, ii, jj))
    THEN Store(Store(h, P, ii, jj, kk), D, ii, jj,
               Plus(Cell(h, D, ii, kk), Cell(h, W, kk, jj)))
    ELSE h

\* Lines 55-57 at the triple (kk, ii, jj).
RelaxCell(h, kk, ii, jj) ==
    IF Improves(Cell(h, D, ii, kk), Cell(h, D, kk, jj), Cell(h, D, ii, jj))
    THEN Store(Store(h, P, ii, jj, kk), D, ii, jj,
               Plus(Cell(h, D, ii, kk), Cell(h, D, kk, jj)))
    ELSE h

\* The subscripts of line 55 are all within their lists.
Indexable(h, kk, ii, jj) ==
    /\ CanIndex(h, D, ii, kk)
    /\ CanIndex(h, D, kk, jj)
    /\ CanIndex(h, D, ii, jj)

\* The loops nested with k innermost: for i: for j: for k.
NextTripleKInner(kk, ii, jj, m) ==
    IF kk + 1 < m THEN <<kk + 1, ii, jj>>
    ELSE IF jj + 1 < m THEN <<0, ii, jj + 1>>
    ELSE IF ii + 1 < m THEN <<0, ii + 1, 0>>
    ELSE <<m, 0, 0>>

\* itertools.product(range(n), range(n), range(n)), k outermost: the triple
\* after (kk, ii, jj); k = m once the product is exhausted.
NextTriple(kk, ii, jj, m) ==
    IF jj + 1 < m THEN <<kk, ii, jj + 1>>
    ELSE IF ii + 1 < m THEN <<kk, ii + 1, 0>>
    ELSE <<kk + 1, 0, 0>>

Relax ==
    /\ pc = "loop"
    /\ k < n
    /\ Indexable(heap, k, i, j)
    /\ heap' = RelaxCell(heap, k, i, j)
    /\ LET t == NextTriple(k, i, j, n)
       IN  /\ k' = t[1]
           /\ i' = t[2]
           /\ j' = t[3]
    /\ UNCHANGED <<W, n, D, P, pj, pend, pc, Win, nArg, out>>

\* A subscript of line 55 is out of range: IndexError leaves allpairsp.
IndexError ==
    /\ pc = "loop"
    /\ k < n
    /\ ~Indexable(heap, k, i, j)
    /\ pc' = "raised"
    /\ UNCHANGED <<heap, W, n, D, P, k, i, j, pj, pend, Win, nArg, out>>

\* Line 59.
Return ==
    /\ pc = "loop"
    /\ k >= n
    /\ pc' = "returned"
    /\ UNCHANGED <<heap, W, n, D, P, k, i, j, pj, pend, Win, nArg, out>>

----------------------------------------------------------------------------
\* get_int_path

\* Stands for the interpreter's recursion limit: deeper than any path here.
RecursionLimit == MaxN + 2

Max(x, y) == IF x >= y THEN x ELSE y

\* get_int_path printing the vertex before resolving the left sub-path.
RECURSIVE get_int_path_pre(_, _, _, _)
get_int_path_pre(Pm, a, b, depth) ==
    IF depth > RecursionLimit
    THEN [printed |-> <<>>, depth |-> depth, overflow |-> TRUE]
    ELSE IF Pm[a + 1][b + 1] # inf
    THEN LET m == Pm[a + 1][b + 1]
             L == get_int_path_pre(Pm, a, m, depth + 1)
             R == get_int_path_pre(Pm, m, b, depth + 1)
         IN  IF L.overflow THEN L
             ELSE IF R.overflow THEN R
             ELSE [printed |-> <<m + 1>> \o L.printed \o R.printed,
                   depth |-> Max(L.depth, R.depth),
                   overflow |-> FALSE]
    ELSE [printed |-> <<>>, depth |-> depth, overflow |-> FALSE]

\* get_int_path(P, a, b) entered at the given recursion depth: the vertex
\* numbers it prints, the deepest call, and whether the limit was exceeded.
RECURSIVE get_int_path(_, _, _, _)
get_int_path(Pm, a, b, depth) ==
    IF depth > RecursionLimit
    THEN [printed |-> <<>>, depth |-> depth, overflow |-> TRUE]
    ELSE IF Pm[a + 1][b + 1] # inf
    THEN LET m == Pm[a + 1][b + 1]
             L == get_int_path(Pm, a, m, depth + 1)
             R == get_int_path(Pm, m, b, depth + 1)
         IN  IF L.overflow THEN L
             ELSE IF R.overflow THEN R
             ELSE [printed |-> L.printed \o <<m + 1>> \o R.printed,
                   depth |-> Max(L.depth, R.depth),
                   overflow |-> FALSE]
    ELSE [printed |-> <<>>, depth |-> depth, overflow |-> FALSE]

\* The caller (print_path) reconstructs the path between two vertices of the
\* returned P; one call is followed per run, get_int_path changing nothing.
GetIntPath ==
    /\ pc = "returned"
    /\ out = NoCall
    /\ \E a, b \in 0..(Len(P) - 1) :
        LET r == get_int_path(Mat(heap, P), a, b, 1)
        IN  out' = [args |-> <<a, b>>, printed |-> r.printed,
                    depth |-> r.depth, overflow |-> r.overflow]
    /\ UNCHANGED <<heap, W, n, D, P, k, i, j, pj, pend, pc, Win, nArg>>

Next == Start \/ Relax \/ IndexError \/ Return \/ GetIntPath

Spec == Init /\ [][Next]_vars

----------------------------------------------------------------------------
\* The k-pass of lines 54-57 with one process per row i: each runs its row's
\* j-loop, the rows interleave freely, and the next k starts when every row
\* has finished.  A process evaluates line 55 in one step and performs the
\* stores of lines 56-57 in a later one, so other rows' steps fall between.

InitPar == InitOf(ParInputs)

ParStart ==
    /\ Begin
    /\ pj' = [r \in 1..n' |-> 0]
    /\ pend' = [r \in 1..n' |-> <<>>]
    /\ UNCHANGED <<W, k, i, j, Win, nArg, out>>

\* Line 55 for row r at its j: the condition, and the sum when it holds.
ParTest(r) ==
    /\ pc = "loop"
    /\ k < n
    /\ pj[r + 1] < n
    /\ pend[r + 1] = <<>>
    /\ Indexable(heap, k, r, pj[r + 1])
    /\ IF Improves(Cell(heap, D, r, k), Cell(heap, D, k, pj[r + 1]),
                   Cell(heap, D, r, pj[r + 1]))
       THEN /\ pend' = [pend EXCEPT ![r + 1] =
                            <<Plus(Cell(heap, D, r, k), Cell(heap, D, k, pj[r + 1]))>>]
            /\ UNCHANGED pj
       ELSE /\ pj' = [pj EXCEPT ![r + 1] = @ + 1]
            /\ UNCHANGED pend
    /\ UNCHANGED <<heap, W, n, D, P, k, i, j, pc, Win, nArg, out>>

\* Lines 56-57 for row r at its j.
ParStore(r) ==
    /\ pc = "loop"
    /\ pend[r + 1] # <<>>
    /\ heap' = Store(Store(heap, P, r, pj[r + 1], k), D, r, pj[r + 1], pend[r + 1][1])
    /\ pend' = [pend EXCEPT ![r + 1] = <<>>]
    /\ pj' = [pj EXCEPT ![r + 1] = @ + 1]
    /\ UNCHANGED <<W, n, D, P, k, i, j, pc, Win, nArg, out>>

\* The next k starts as soon as one row has finished.
RowsDoneAny == \E r \in 1..Len(pj) : pj[r] = n

\* Every (i, j) of this k has been relaxed.
RowsDone == \A r \in 1..Len(pj) : pj[r] = n

ParNextK ==
    /\ pc = "loop"
    /\ k < n
    /\ RowsDone
    /\ k' = k + 1
    /\ pj' = [r \in 1..n |-> 0]
    /\ UNCHANGED <<heap, W, n, D, P, i, j, pend, pc, Win, nArg, out>>

ParReturn ==
    /\ pc = "loop"
    /\ k >= n
    /\ pc' = "returned"
    /\ UNCHANGED <<heap, W, n, D, P, k, i, j, pj, pend, Win, nArg, out>>

NextPar ==
    \/ ParStart
    \/ \E r \in 0..(n - 1) : ParTest(r)
    \/ \E r \in 0..(n - 1) : ParStore(r)
    \/ ParNextK
    \/ ParReturn

SpecPar == InitPar /\ [][NextPar]_vars

----------------------------------------------------------------------------
\* The properties.

Dm == Mat(heap, D)
Pm == Mat(heap, P)
Wm == Mat(heap, W)

IsSquare(M) == \A r \in 1..Len(M) : Len(M[r]) = Len(M)

\* Square, zero diagonal, nonnegative or infinite weights.
WellFormed(M) ==
    /\ IsSquare(M)
    /\ \A r \in 1..Len(M) :
        /\ M[r][r] = 0
        /\ \A c \in 1..Len(M) : M[r][c] = inf \/ M[r][c] >= 0

\* The total weight of the vertex sequence p (vertices numbered from 1) in M.
RECURSIVE WalkWeight(_, _)
WalkWeight(M, p) ==
    IF Len(p) <= 1 THEN 0
    ELSE Plus(M[p[1]][p[2]], WalkWeight(M, Tail(p)))

\* The least of a nonempty set of weights.
Least(ws) == CHOOSE w \in ws : \A v \in ws : ~Less(v, w)

\* The vertex sequences that may lie between the ends of a walk of at most
\* Len(M) - 1 edges; a walk that repeats no vertex is among them.
Between(M) == UNION {[1..l -> 1..Len(M)] : l \in 0..(Len(M) - 2)}

\* The least total weight of a directed walk from a to b (the empty walk when
\* a = b), inf when every walk crosses a missing edge.
MinWeight(M, a, b) ==
    Least({IF a = b THEN 0 ELSE inf}
          \cup {WalkWeight(M, <<a>> \o mid \o <<b>>) : mid \in Between(M)})

Returned == pc = "returned" /\ out = NoCall

\* C1: allpairsp(W), n defaulted, on a well-formed W returns D with D[i][j] the
\* least total weight of a directed path from i to j, inf when there is none.
C1_ShortestDistances ==
    (Returned /\ nArg = 0 /\ WellFormed(Win)) =>
        \A a, b \in 1..Len(Win) : Dm[a][b] = MinWeight(Win, a, b)

\* C1's case: a returned D with an unreachable pair and a pair joined only
\* through an intermediate that itself is reached through one.
C1_Witness ==
    /\ Returned /\ nArg = 0 /\ WellFormed(Win)
    /\ \E a, b \in 1..Len(Win) : Dm[a][b] = inf
    /\ \E a, b \in 1..Len(Win) :
        /\ Win[a][b] = inf
        /\ Dm[a][b] # inf
        /\ Pm[a][b] # inf
        /\ Pm[a][Pm[a][b] + 1] # inf

\* The vertices (numbered from 0) get_int_path printed as v1, v2, ...
Vertices(printed) == [x \in 1..Len(printed) |-> printed[x] - 1]

\* The path the last get_int_path call reconstructs, vertices numbered from 1.
FullPath ==
    <<out.args[1] + 1>> \o out.printed \o <<out.args[2] + 1>>

Reconstructed == pc = "returned" /\ out # NoCall

\* C2: for i # j with D[i][j] finite, i, the vertices get_int_path prints, j is
\* a path of W whose edge weights sum to D[i][j].
C2_PathSumsToDistance ==
    (/\ Reconstructed
     /\ WellFormed(Win)
     /\ out.args[1] # out.args[2]
     /\ Dm[out.args[1] + 1][out.args[2] + 1] # inf) =>
        /\ ~out.overflow
        /\ \A x \in 1..(Len(FullPath) - 1) : Win[FullPath[x]][FullPath[x + 1]] # inf
        /\ WalkWeight(Win, FullPath) = Dm[out.args[1] + 1][out.args[2] + 1]

\* C2's case: a reconstructed path with two intermediate vertices.
C2_Witness ==
    /\ Reconstructed
    /\ WellFormed(Win)
    /\ out.args[1] # out.args[2]
    /\ Dm[out.args[1] + 1][out.args[2] + 1] # inf
    /\ Len(out.printed) >= 2

\* W is not square, or n exceeds its dimension.
Invalid == ~IsSquare(Win) \/ nArg > Len(Win)

\* C3: on a W that is not square or an n larger than W's dimension, allpairsp
\* fails before any relaxation step is performed and never returns a result.
C3_InvalidInputRejected ==
    Invalid =>
        /\ pc # "returned"
        /\ <<k, i, j>> = <<0, 0, 0>>

\* C4: for 1 <= n <= len(W), the returned D and P are square matrices of the
\* dimension of W.
C4_SameDimensions ==
    (pc = "returned" /\ IsSquare(Win) /\ nArg >= 1 /\ nArg <= Len(Win)) =>
        /\ Len(Dm) = Len(Win)
        /\ Len(Pm) = Len(Win)
        /\ IsSquare(Dm)
        /\ IsSquare(Pm)

Range(s) == {s[x] : x \in 1..Len(s)}

\* C5: the caller's W always holds the values it held at the call, and neither
\* D nor P shares a row with it, so every write of a relaxation step goes to
\* D's or P's own rows.
C5_InputNotMutated ==
    /\ Wm = Win
    /\ Range(D) \cap Range(W) = {}
    /\ Range(P) \cap Range(W) = {}

\* C5's case: allpairsp has returned a D that relaxation steps have written.
C5_Witness ==
    /\ pc = "returned"
    /\ n = Len(Win)
    /\ Dm # Win
    /\ Wm = Win

\* C6 as stated: on the demonstration's W, D[0][2] = 6 and P[0][2] is set.
C6_DemoDistanceSix ==
    (pc = "returned" /\ Win = W_demo /\ nArg = 0) =>
        /\ Cell(heap, D, 0, 2) = 6
        /\ Cell(heap, P, 0, 2) # inf

\* C6 amended: on the demonstration's W, D[0][2] = 3 (v1 -> v4 -> v3) and
\* P[0][2] is set.
C6_DemoDistanceThree ==
    (pc = "returned" /\ Win = W_demo /\ nArg = 0) =>
        /\ Cell(heap, D, 0, 2) = 3
        /\ Cell(heap, P, 0, 2) # inf

\* C6's case: allpairsp has returned on the demonstration's W.
C6_Witness == Returned /\ Win = W_demo /\ nArg = 0 /\ Len(Dm) = 5

\* C7: in the returned P, P[i][j] = k set means k is neither i nor j, P[i][k]
\* and P[k][j] are unset or less than k, and no vertex get_int_path prints for
\* (i, j) is higher than k.
C7_HighestIntermediate ==
    (Returned /\ WellFormed(Win)) =>
        \A a, b \in 0..(Len(P) - 1) :
            LET m == Pm[a + 1][b + 1]
                pr == get_int_path(Pm, a, b, 1).printed
            IN  m # inf =>
                    /\ m # a
                    /\ m # b
                    /\ Pm[a + 1][m + 1] = inf \/ Pm[a + 1][m + 1] < m
                    /\ Pm[m + 1][b + 1] = inf \/ Pm[m + 1][b + 1] < m
                    /\ \E x \in 1..Len(pr) : pr[x] - 1 = m
                    /\ \A x \in 1..Len(pr) : pr[x] - 1 <= m

\* C7's case: a returned P[i][j] = k whose sub-path i..k has its own
\* intermediate vertex.
C7_Witness ==
    /\ Returned
    /\ WellFormed(Win)
    /\ \E a, b \in 0..(Len(P) - 1) :
        /\ Pm[a + 1][b + 1] # inf
        /\ Pm[a + 1][Pm[a + 1][b + 1] + 1] # inf

\* C8: on the P of a completed run, get_int_path(P, i, j) ends within the
\* recursion limit at depth at most n, prints no vertex twice, and prints
\* nothing for i = j.
C8_ReconstructionTerminates ==
    (Reconstructed /\ WellFormed(Win)) =>
        /\ ~out.overflow
        /\ out.depth <= Len(P)
        /\ \A x, y \in 1..Len(out.printed) :
            x # y => out.printed[x] # out.printed[y]
        /\ out.args[1] = out.args[2] => out.printed = <<>>

\* C8's case: a reconstruction that recursed to depth 3.
C8_Witness ==
    /\ Reconstructed
    /\ WellFormed(Win)
    /\ ~out.overflow
    /\ out.depth >= 3

\* The vertices P covers, none beyond W's own.
Looped == 1..(IF n <= Len(Win) THEN n ELSE Len(Win))

InLoop == pc \in {"loop", "returned"} /\ WellFormed(Win) /\ n <= Len(Win)

\* D[i][j] <= W[i][j], and P[i][j] is set exactly when D[i][j] < W[i][j].
C9_Bounded ==
    InLoop =>
        \A a, b \in Looped :
            a # b =>
                /\ ~Less(Win[a][b], Dm[a][b])
                /\ Pm[a][b] # inf <=> Less(Dm[a][b], Win[a][b])

\* No step of the loop increases a D[i][j].
C9_Monotone ==
    (InLoop /\ pc = "loop") =>
        \A a, b \in Looped : ~Less(Dm[a][b], Mat(heap', D')[a][b])

\* C9: in every state of the relaxation loop, for i # j, D[i][j] <= W[i][j],
\* D[i][j] never increases from one step to the next, and P[i][j] is set if and
\* only if D[i][j] < W[i][j].
C9_LoopInvariant == []C9_Bounded /\ [][C9_Monotone]_vars

\* C9's case: mid-loop, one pair already improved through an intermediate
\* and another still on its direct edge.
C9_Witness ==
    /\ InLoop
    /\ pc = "loop"
    /\ k < n
    /\ k > 0
    /\ \E a, b \in Looped : a # b /\ Pm[a][b] # inf /\ Less(Dm[a][b], Win[a][b])
    /\ \E a, b \in Looped : a # b /\ Pm[a][b] = inf /\ Dm[a][b] # inf

\* The heap lines 47-50 leave.
Started == newP(deepcopy(Win, W).heap, n).heap

\* The heap after the triples of the sequential order from (kk, ii, jj) up to
\* the end of pass last - 1.
RECURSIVE SeqRun(_, _, _, _, _)
SeqRun(h, kk, ii, jj, last) ==
    IF kk >= last \/ kk >= n THEN h
    ELSE LET t == NextTriple(kk, ii, jj, n)
         IN  SeqRun(RelaxCell(h, kk, ii, jj), t[1], t[2], t[3], last)

\* Every row has finished its j-loop for the current k.
PassComplete == \A r \in 1..Len(pj) : pj[r] = n

\* C10: with the rows of a k-pass interleaved in any order, D and P at the end
\* of each k-pass, and at the return, are those of the sequential order.
C10_RowParallelEqualsSequential ==
    /\ (pc = "loop" /\ k < n /\ PassComplete) => heap = SeqRun(Started, 0, 0, 0, k + 1)
    /\ pc = "returned" => heap = SeqRun(Started, 0, 0, 0, n)

\* C10's case: the last row has finished its pass, improving a distance
\* through k, while another row is between its test and its store and the
\* first row has not begun.
C10_Witness ==
    /\ pc = "loop"
    /\ k < n
    /\ Len(pj) >= 2
    /\ pj[1] = 0
    /\ \E r \in 1..Len(pend) : pend[r] # <<>>
    /\ pj[Len(pj)] = n
    /\ \E b \in 1..n : Pm[n][b] = k

====
